---- MODULE Spec2Model ----
(***************************************************************************)
(* Model of the x402 peer handshake (x402-core/src/peer/handshake.rs) and  *)
(* of the connection acceptor, the Seeder (x402-core/src/peer/serve.rs).   *)
(*                                                                         *)
(* A TCP connection is a pair of byte streams.  cw is everything the       *)
(* connecting side has written, sw everything the accepting side has       *)
(* written.  A blocking read_exact of 68 bytes completes when 68 bytes     *)
(* have been written to the stream or the writer has closed it.            *)
(***************************************************************************)
EXTENDS Integers, Sequences, FiniteSets, TLC

\* ------------------------------------------------------------------ bounds
MaxConns == 2
NumIds == 2
MaxServed == 2

\* --------------------------------------------------------------- constants
HANDSHAKE_LENGTH == 68
PSTRLEN == 19

\* b"BitTorrent protocol"
PROTOCOL_STRING ==
    <<66, 105, 116, 84, 111, 114, 114, 101, 110, 116, 32,
      112, 114, 111, 116, 111, 99, 111, 108>>

Rep(n, b) == [i \in 1..n |-> b]
Range(s) == {s[i] : i \in 1..Len(s)}
Take(s, n) == SubSeq(s, 1, n)

\* 20-byte content identifiers ([b; 20], as the tests build them) and peer ids.
Ids == {Rep(20, b) : b \in 1..NumIds}
\* generate_peer_id(): nothing in the code reads the value it returns.
SeederPeerIds == {Rep(20, 200)}
ClientPeerId == Rep(20, 100)
RemotePeerId == Rep(20, 150)
Conns == 1..MaxConns

\* --------------------------------------------------- handshake.rs, pure part
NoHs == [pstrlen |-> 0, pstr |-> <<>>, reserved |-> <<>>,
         info_hash |-> <<>>, peer_id |-> <<>>]

HandshakeNew(info_hash, pid) ==
    [pstrlen |-> PSTRLEN, pstr |-> PROTOCOL_STRING, reserved |-> Rep(8, 0),
     info_hash |-> info_hash, peer_id |-> pid]

\* serialize with the last two fields in the other order.
serialize_peer_id_first(h) ==
    <<h.pstrlen>> \o h.pstr \o h.reserved \o h.peer_id \o h.info_hash

serialize(h) ==
    <<h.pstrlen>> \o h.pstr \o h.reserved \o h.info_hash \o h.peer_id

\* deserialize without the comparison of the protocol name.
deserialize_pstr_unchecked(data) ==
    IF Len(data) < HANDSHAKE_LENGTH
    THEN [ok |-> FALSE, err |-> "too_short", hs |-> NoHs]
    ELSE IF data[1] # 19
    THEN [ok |-> FALSE, err |-> "bad_pstrlen", hs |-> NoHs]
    ELSE [ok |-> TRUE, err |-> "none",
          hs |-> [pstrlen |-> data[1],
                  pstr |-> SubSeq(data, 2, 20),
                  reserved |-> SubSeq(data, 21, 28),
                  info_hash |-> SubSeq(data, 29, 48),
                  peer_id |-> SubSeq(data, 49, 68)]]

deserialize(data) ==
    IF Len(data) < HANDSHAKE_LENGTH
    THEN [ok |-> FALSE, err |-> "too_short", hs |-> NoHs]
    ELSE IF data[1] # 19
    THEN [ok |-> FALSE, err |-> "bad_pstrlen", hs |-> NoHs]
    ELSE IF SubSeq(data, 2, 20) # PROTOCOL_STRING
    THEN [ok |-> FALSE, err |-> "bad_pstr", hs |-> NoHs]
    ELSE [ok |-> TRUE, err |-> "none",
          hs |-> [pstrlen |-> data[1],
                  pstr |-> SubSeq(data, 2, 20),
                  reserved |-> SubSeq(data, 21, 28),
                  info_hash |-> SubSeq(data, 29, 48),
                  peer_id |-> SubSeq(data, 49, 68)]]

\* What a read of `received` (a zero-initialised 68-byte buffer filled from the
\* front) hands to deserialize when the stream ended early.
ZeroPadded(received) ==
    received \o Rep(HANDSHAKE_LENGTH - Len(received), 0)

\* receive with a single read in place of read_exact: a short read is parsed.
receive_single_read(written, eof) ==
    IF Len(written) >= HANDSHAKE_LENGTH
    THEN deserialize(Take(written, HANDSHAKE_LENGTH))
    ELSE IF eof THEN deserialize(ZeroPadded(written))
    ELSE [ok |-> FALSE, err |-> "blocked", hs |-> NoHs]

\* Handshake::receive on a stream on which `written` has been written so far and
\* whose writer has (eof) or has not closed it.  "blocked": read_exact is waiting.
receive(written, eof) ==
    IF Len(written) >= HANDSHAKE_LENGTH
    THEN deserialize(Take(written, HANDSHAKE_LENGTH))
    ELSE IF eof THEN [ok |-> FALSE, err |-> "read", hs |-> NoHs]
    ELSE [ok |-> FALSE, err |-> "blocked", hs |-> NoHs]

\* ------------------------------------------------ hex identifiers (strings)
\* A string is the sequence of its UTF-8 bytes, as str::len and str slicing see it.
Str40(ch) == Rep(40, ch)

\* char::to_digit(16); 16 stands for "not a digit".
to_digit(c) ==
    IF c \in 48..57 THEN c - 48
    ELSE IF c \in 97..102 THEN c - 87
    ELSE IF c \in 65..70 THEN c - 55
    ELSE 16

RECURSIVE digits_value(_, _)
digits_value(ds, acc) ==
    IF ds = <<>> THEN acc
    ELSE IF to_digit(Head(ds)) = 16 THEN -1
    ELSE digits_value(Tail(ds), acc * 16 + to_digit(Head(ds)))

\* u8::from_str_radix(s, 16): -1 stands for Err.  A leading '+' is a sign, a
\* leading '-' is an invalid digit of an unsigned type.
from_str_radix(s) ==
    IF s = <<>> THEN -1
    ELSE IF Len(s) = 1 /\ s[1] \in {43, 45} THEN -1
    ELSE LET ds == IF s[1] = 43 THEN Tail(s) ELSE s
             v == digits_value(ds, 0)
         IN IF v > 255 THEN -1 ELSE v

\* str::is_char_boundary(i), i a 0-based byte offset.
is_char_boundary(s, i) ==
    i = 0 \/ i = Len(s) \/ (i < Len(s) /\ s[i + 1] \notin 128..191)

\* The loop of add_torrent_hex and from_hex, from pair i on (0-based): the bytes
\* decoded so far, or the first failure in evaluation order.
RECURSIVE decode_pairs(_, _, _)
decode_pairs(s, i, acc) ==
    IF i = 20 THEN [res |-> "ok", bytes |-> acc]
    ELSE IF ~(is_char_boundary(s, 2 * i) /\ is_char_boundary(s, 2 * i + 2))
    THEN [res |-> "panic", bytes |-> <<>>]
    ELSE LET v == from_str_radix(SubSeq(s, 2 * i + 1, 2 * i + 2))
         IN IF v = -1 THEN [res |-> "err_hex", bytes |-> <<>>]
            ELSE decode_pairs(s, i + 1, Append(acc, v))

decode_info_hash_hex(s) ==
    IF Len(s) # 40 THEN [res |-> "err_len", bytes |-> <<>>]
    ELSE decode_pairs(s, 0, <<>>)

hex_char(d) == IF d < 10 THEN 48 + d ELSE 87 + d

\* Handshake::info_hash_hex: format!("{:02x}") of every byte.
info_hash_hex(bytes) ==
    [i \in 1..(2 * Len(bytes)) |->
        LET b == bytes[(i + 1) \div 2]
        IN IF i % 2 = 1 THEN hex_char(b \div 16) ELSE hex_char(b % 16)]

\* "invalid", the string of the tests.
StrInvalid == <<105, 110, 118, 97, 108, 105, 100>>

\* "+1+1...+1", 40 characters.
StrPlusOne == [i \in 1..40 |-> IF i % 2 = 1 THEN 43 ELSE 49]

\* The strings add_torrent_hex is called with: the hex form of every identifier,
\* a short string, 40 characters with a non-hex one, 40 bytes in which a
\* two-byte character straddles a pair, and 40 characters with plus signs.
HexInputs ==
    {info_hash_hex(id) : id \in Ids}
    \cup {StrInvalid,
          [Str40(48) EXCEPT ![40] = 103],
          [Str40(48) EXCEPT ![2] = 195, ![3] = 169],
          StrPlusOne}

\* ------------------------------------------------------------------- state
VARIABLES
    address,      \* Seeder.address
    port,         \* Seeder.port
    peer_id,      \* Seeder.peer_id
    info_hashes,  \* Seeder.info_hashes, a Vec
    lpc,          \* where the thread that owns the Seeder is
    ret,          \* what the last Seeder call returned
    cur,          \* the connection listen is handling, 0 for none
    backlog,      \* connections the listener has not yet yielded, in order
    conn,         \* the connections
    call          \* a call of a pure function: its name, argument and result

vars ==
    <<address, port, peer_id, info_hashes, lpc, ret, cur, backlog, conn, call>>

NoConn ==
    [kind |-> "none", target |-> "none", msg |-> <<>>, id |-> <<>>,
     cst |-> "none", cw |-> <<>>, sst |-> "none", sw |-> <<>>,
     rx |-> NoHs, resp |-> NoHs]

\* No pure function is being called.
NoCall == [fn |-> "none", arg |-> <<>>, mid |-> <<>>, out |-> <<>>]

\* Seeder::new, before any other call.
Init ==
    /\ call = NoCall
    /\ address = "127.0.0.1"
    /\ port = 6881
    /\ peer_id \in SeederPeerIds
    /\ info_hashes = <<>>
    /\ lpc = "idle"
    /\ ret = "none"
    /\ cur = 0
    /\ backlog = <<>>
    /\ conn = [c \in Conns |-> NoConn]

SeederState == <<address, port, peer_id, info_hashes>>

\* add_torrent and add_torrent_hex take &mut self and listen holds &self until it
\* returns: they run only while no listen call is in progress.
Exclusive == lpc \in {"idle", "returned"}

Listening == lpc \in {"accept", "peer_addr", "receive", "send"}

\* ------------------------------------------------------- Seeder, the set
\* An assignment in place of the push: the new identifier evicts the others.
push_replacing(v, x) == <<x>>

\* Vec::push
push(v, x) == Append(v, x)

add_torrent(info_hash) ==
    /\ Exclusive
    /\ Len(info_hashes) < MaxServed
    /\ info_hashes' = push(info_hashes, info_hash)
    /\ ret' = "unit"
    /\ UNCHANGED <<call, address, port, peer_id, lpc, cur, backlog, conn>>

add_torrent_hex(s) ==
    /\ Exclusive
    /\ Len(info_hashes) < MaxServed
    /\ LET d == decode_info_hash_hex(s)
       IN /\ info_hashes' =
                IF d.res = "ok" THEN push(info_hashes, d.bytes) ELSE info_hashes
          /\ ret' = d.res
          /\ lpc' = IF d.res = "panic" THEN "panicked" ELSE lpc
    /\ UNCHANGED <<call, address, port, peer_id, cur, backlog, conn>>

\* ------------------------------------------------------------ connections
Final(st) == st \notin {"none", "queued", "handling", "open", "send", "receive",
                        "remote_open"}

\* The accepting side has dropped its end of c.
ServerClosed(c) == Final(conn[c].sst)

\* The connecting side has closed c (FIN) or aborted it (RST).
ClientGone(c) == conn[c].cst \in {"closed", "reset"}

\* Connections are opened in the order of their numbers.
Fresh(c) ==
    /\ conn[c].kind = "none"
    /\ \A d \in Conns : d < c => conn[d].kind # "none"

BadPstrlen(m) == [m EXCEPT ![1] = 18]
BadPstr(m) == [m EXCEPT ![2] = 73]

\* What a peer that does not run this code sends: a well-formed handshake for
\* any identifier, one with a wrong length prefix, one with a wrong literal.
RawMsgs ==
    {serialize(HandshakeNew(id, ClientPeerId)) : id \in Ids}
    \cup {BadPstrlen(serialize(HandshakeNew(Rep(20, 1), ClientPeerId))),
          BadPstr(serialize(HandshakeNew(Rep(20, 1), ClientPeerId)))}

\* The lengths at which such a peer pauses, closes or aborts.
WritePoints(m) == {n \in {20, 67, Len(m)} : n <= Len(m)}

RawConnect(c, m) ==
    /\ Listening
    /\ Fresh(c)
    /\ conn' = [conn EXCEPT ![c] =
                   [NoConn EXCEPT !.kind = "raw", !.target = "seeder",
                                  !.msg = m, !.cst = "open", !.sst = "queued"]]
    /\ backlog' = Append(backlog, c)
    /\ UNCHANGED <<call, address, port, peer_id, info_hashes, lpc, ret, cur>>

\* (What the peer writes after the Seeder dropped the stream is read by nobody.)
RawWrite(c, n) ==
    /\ conn[c].kind = "raw"
    /\ conn[c].cst = "open"
    /\ ~ServerClosed(c)
    /\ n \in WritePoints(conn[c].msg)
    /\ Len(conn[c].cw) < n
    /\ conn' = [conn EXCEPT ![c].cw = Take(conn[c].msg, n)]
    /\ UNCHANGED <<call, address, port, peer_id, info_hashes, lpc, ret, cur, backlog>>

\* The peer closes its socket: a FIN after what it wrote.
RawClose(c) ==
    /\ conn[c].kind = "raw"
    /\ conn[c].cst = "open"
    /\ conn' = [conn EXCEPT ![c].cst = "closed"]
    /\ UNCHANGED <<call, address, port, peer_id, info_hashes, lpc, ret, cur, backlog>>

\* The peer aborts the connection: a RST.
RawReset(c) ==
    /\ conn[c].kind = "raw"
    /\ conn[c].cst = "open"
    /\ conn' = [conn EXCEPT ![c].cst = "reset"]
    /\ UNCHANGED <<call, address, port, peer_id, info_hashes, lpc, ret, cur, backlog>>

\* ------------------------------------------------- Handshake::exchange
\* exchange without the comparison of the identifiers.
exchange_result_unchecked(r, info_hash) ==
    IF ~r.ok THEN "err_" \o r.err ELSE "ok"

\* The verdict of exchange on what its receive returned.
exchange_result(r, info_hash) ==
    IF ~r.ok THEN "err_" \o r.err
    ELSE IF r.hs.info_hash # info_hash THEN "err_mismatch"
    ELSE "ok"

\* An initiator connects to the Seeder and calls exchange(stream, id, peer_id).
ExchangeConnect(c, id) ==
    /\ Listening
    /\ Fresh(c)
    /\ conn' = [conn EXCEPT ![c] =
                   [NoConn EXCEPT !.kind = "exchange", !.target = "seeder",
                                  !.id = id, !.cst = "send", !.sst = "queued"]]
    /\ backlog' = Append(backlog, c)
    /\ UNCHANGED <<call, address, port, peer_id, info_hashes, lpc, ret, cur>>

\* An initiator that goes on to read without having written.
ExchangeSend_nothing_written(c) ==
    /\ conn[c].kind = "exchange"
    /\ conn[c].cst = "send"
    /\ conn' = [conn EXCEPT ![c].cst = "receive"]
    /\ UNCHANGED <<call, address, port, peer_id, info_hashes, lpc, ret, cur, backlog>>

\* handshake.send(stream): all 68 bytes, or an error when the other end is gone.
ExchangeSend(c) ==
    /\ conn[c].kind = "exchange"
    /\ conn[c].cst = "send"
    /\ \/ conn' = [conn EXCEPT
                      ![c].cw = serialize(HandshakeNew(conn[c].id, ClientPeerId)),
                      ![c].cst = "receive"]
       \/ /\ ServerClosed(c)
          /\ conn' = [conn EXCEPT ![c].cst = "err_send"]
    /\ UNCHANGED <<call, address, port, peer_id, info_hashes, lpc, ret, cur, backlog>>

\* Self::receive(stream) and the comparison of the identifiers.
ExchangeReceive(c) ==
    /\ conn[c].kind = "exchange"
    /\ conn[c].cst = "receive"
    /\ LET r == receive(conn[c].sw, ServerClosed(c))
           v == exchange_result(r, conn[c].id)
       IN /\ r.err # "blocked"
          /\ conn' = [conn EXCEPT ![c].cst = v,
                                  ![c].resp = IF v = "ok" THEN r.hs ELSE NoHs]
    /\ UNCHANGED <<call, address, port, peer_id, info_hashes, lpc, ret, cur, backlog>>

\* ------------------------------------------------------- Seeder::listen
\* TcpListener::bind(&addr)?: the listener, or the error returned to the caller.
\* listen is called once, as the command-line front-end does.
listen_bind ==
    /\ lpc = "idle"
    /\ \/ /\ lpc' = "accept"
          /\ ret' = "none"
       \/ /\ lpc' = "returned"
          /\ ret' = "err_bind"
    /\ UNCHANGED <<call, address, port, peer_id, info_hashes, cur, backlog, conn>>

\* listener.incoming() yields the next connection: Ok(stream), or Err(e) for a
\* connection aborted while it waited (logged, and the loop goes on).
listen_accept ==
    /\ lpc = "accept"
    /\ backlog # <<>>
    /\ LET c == Head(backlog)
       IN \/ /\ lpc' = "peer_addr"
             /\ cur' = c
             /\ conn' = [conn EXCEPT ![c].sst = "handling"]
          \/ /\ conn[c].cst = "reset"
             /\ lpc' = "accept"
             /\ cur' = 0
             /\ conn' = [conn EXCEPT ![c].sst = "err_accept"]
    /\ backlog' = Tail(backlog)
    /\ UNCHANGED <<call, address, port, peer_id, info_hashes, ret>>

\* listen returns after the bind: the listener and the stream in hand are dropped.
DropAll(why) ==
    [c \in Conns |->
        IF c = cur THEN [conn[c] EXCEPT !.sst = why]
        ELSE IF conn[c].sst = "queued" THEN [conn[c] EXCEPT !.sst = "refused"]
        ELSE conn[c]]

\* stream.peer_addr()?: getpeername fails on a connection its peer has aborted,
\* and the ? returns that error from listen.
listen_peer_addr ==
    /\ lpc = "peer_addr"
    /\ \/ /\ lpc' = "receive"
          /\ UNCHANGED <<ret, cur, backlog, conn>>
       \/ /\ conn[cur].cst = "reset"
          /\ lpc' = "returned"
          /\ ret' = "err_peer_addr"
          /\ conn' = DropAll("err_peer_addr")
          /\ cur' = 0
          /\ backlog' = <<>>
    /\ UNCHANGED <<call, address, port, peer_id, info_hashes>>

\* A membership test that finds every identifier served.
contains_always(v, x) == TRUE

\* self.info_hashes.contains(&info_hash)
contains(v, x) == \E i \in 1..Len(v) : v[i] = x

\* The first half of handle_connection without the membership test.
handle_check_unserved_ok(r, hashes) ==
    IF ~r.ok THEN "err_" \o r.err ELSE "send"

\* The first half of handle_connection, on what Handshake::receive returned:
\* the error it returns, or "send" when it goes on to answer.
handle_check(r, hashes) ==
    IF ~r.ok THEN "err_" \o r.err
    ELSE IF ~contains(hashes, r.hs.info_hash) THEN "err_not_served"
    ELSE "send"

\* Handshake::receive(&mut stream)? and the membership test.  A read on a
\* connection its peer has aborted may fail whatever was written before.
handle_receive ==
    /\ lpc = "receive"
    /\ LET c == cur
           r == receive(conn[c].cw, ClientGone(c))
       IN /\ r.err # "blocked"
          /\ \E v \in {handle_check(r, info_hashes)}
                      \cup (IF conn[c].cst = "reset" THEN {"err_read"} ELSE {}) :
                IF v = "send"
                THEN /\ lpc' = "send"
                     /\ conn' = [conn EXCEPT ![c].rx = r.hs]
                     /\ cur' = cur
                ELSE /\ lpc' = "accept"
                     /\ conn' = [conn EXCEPT ![c].sst = v,
                                             ![c].rx = IF r.ok /\ v # "err_read"
                                                       THEN r.hs ELSE NoHs]
                     /\ cur' = 0
    /\ UNCHANGED <<call, address, port, peer_id, info_hashes, ret, backlog>>

\* The reply built from the first served identifier, not the received one.
response_first_served(handshake, own_peer_id) ==
    HandshakeNew(info_hashes[1], own_peer_id)

\* The reply built with the peer identifier of the handshake just received.
response_echo_peer(handshake, own_peer_id) ==
    HandshakeNew(handshake.info_hash, handshake.peer_id)

\* Handshake::new(handshake.info_hash, self.peer_id)
response(handshake, own_peer_id) ==
    HandshakeNew(handshake.info_hash, own_peer_id)

\* response.send(&mut stream)?: the reply, or a write error on a connection its
\* peer has aborted; then handle_connection returns and the stream is dropped.
handle_send ==
    /\ lpc = "send"
    /\ LET c == cur
       IN \/ conn' = [conn EXCEPT
                         ![c].sw = serialize(response(conn[c].rx, peer_id)),
                         ![c].sst = "ok"]
          \/ /\ conn[c].cst = "reset"
             /\ conn' = [conn EXCEPT ![c].sst = "err_send"]
    /\ lpc' = "accept"
    /\ cur' = 0
    /\ UNCHANGED <<call, address, port, peer_id, info_hashes, ret, backlog>>

\* ----------------------------- an initiator against a peer not running this code
\* What such a peer may answer: a well-formed handshake for any identifier, or
\* one with a wrong length prefix or literal.
RemoteMsgs ==
    {serialize(HandshakeNew(id, RemotePeerId)) : id \in Ids}
    \cup {BadPstrlen(serialize(HandshakeNew(Rep(20, 1), RemotePeerId))),
          BadPstr(serialize(HandshakeNew(Rep(20, 1), RemotePeerId)))}

RemoteConnect(c, id, m) ==
    /\ Fresh(c)
    /\ conn' = [conn EXCEPT ![c] =
                   [NoConn EXCEPT !.kind = "exchange", !.target = "remote",
                                  !.id = id, !.msg = m, !.cst = "send",
                                  !.sst = "remote_open"]]
    /\ UNCHANGED <<call, address, port, peer_id, info_hashes, lpc, ret, cur, backlog>>

RemoteWrite(c, n) ==
    /\ conn[c].target = "remote"
    /\ conn[c].sst = "remote_open"
    /\ n \in WritePoints(conn[c].msg)
    /\ Len(conn[c].sw) < n
    /\ conn' = [conn EXCEPT ![c].sw = Take(conn[c].msg, n)]
    /\ UNCHANGED <<call, address, port, peer_id, info_hashes, lpc, ret, cur, backlog>>

RemoteClose(c) ==
    /\ conn[c].target = "remote"
    /\ conn[c].sst = "remote_open"
    /\ conn' = [conn EXCEPT ![c].sst = "remote_closed"]
    /\ UNCHANGED <<call, address, port, peer_id, info_hashes, lpc, ret, cur, backlog>>

\* exchange works on the one stream it is given: one connection is modelled.
NextExchange ==
    \E c \in {1} :
        \/ \E id \in Ids, m \in RemoteMsgs : RemoteConnect(c, id, m)
        \/ \E n \in 1..HANDSHAKE_LENGTH : RemoteWrite(c, n)
        \/ RemoteClose(c)
        \/ ExchangeSend(c)
        \/ ExchangeReceive(c)

SpecExchange == Init /\ [][NextExchange]_vars

SeederStep ==
    listen_accept \/ listen_peer_addr \/ handle_receive \/ handle_send

ClientStep ==
    \E c \in Conns :
        \/ \E m \in RawMsgs : RawConnect(c, m)
        \/ \E n \in 1..HANDSHAKE_LENGTH : RawWrite(c, n)
        \/ RawClose(c)
        \/ RawReset(c)
        \/ \E id \in Ids : ExchangeConnect(c, id)
        \/ ExchangeSend(c)
        \/ ExchangeReceive(c)

Next ==
    \/ \E h \in Ids : add_torrent(h)
    \/ \E s \in HexInputs : add_torrent_hex(s)
    \/ listen_bind
    \/ SeederStep
    \/ ClientStep

Spec == Init /\ [][Next]_vars

\* ================================================================ properties
\* The first 68 bytes are a well-formed handshake (length prefix and literal).
WellFormed(bytes) ==
    /\ Len(bytes) >= 68
    /\ bytes[1] = 19
    /\ \A i \in 1..19 : bytes[i + 1] = PROTOCOL_STRING[i]

IdOf(bytes) == SubSeq(bytes, 29, 48)
PeerOf(bytes) == SubSeq(bytes, 49, 68)
Served(x) == x \in Range(info_hashes)

\* C1: the Seeder writes a reply on a connection only after it has received a
\* well-formed 68-byte handshake whose identifier is served at that moment (so a
\* Seeder serving nothing never replies), and a well-formed handshake for a
\* served identifier on a connection its peer has not aborted is accepted and
\* answered.
C1_ReplyOnlyForServedHandshake ==
    [][/\ \A c \in Conns :
             (conn[c].sw = <<>> /\ conn'[c].sw # <<>>) =>
                 /\ WellFormed(conn[c].cw)
                 /\ Served(IdOf(conn[c].cw))
       /\ (/\ lpc = "receive" /\ lpc' # "receive"
           /\ WellFormed(conn[cur].cw) /\ Served(IdOf(conn[cur].cw))
           /\ conn[cur].cst # "reset") => lpc' = "send"
       /\ (lpc = "send" /\ lpc' # "send" /\ conn[cur].cst # "reset") =>
             /\ conn'[cur].sst = "ok"
             /\ Len(conn'[cur].sw) = 68
             /\ WellFormed(conn'[cur].sw)]_vars

\* A raw peer's well-formed handshake for a served identifier was answered.
C1_Witness ==
    \E c \in Conns :
        /\ conn[c].kind = "raw"
        /\ conn[c].sst = "ok"
        /\ Len(conn[c].sw) = 68
        /\ Served(IdOf(conn[c].cw))

\* C2: after a connection has failed, listen has not returned (the accept loop
\* goes on).
C2_ListenOutlivesFailedConnection ==
    (\E c \in Conns : Final(conn[c].sst) /\ conn[c].sst # "ok") => lpc # "returned"

\* C3: while the connection being handled belongs to a peer that is silent (fewer
\* than 68 bytes written, stream open), a queued connection that has already
\* written a well-formed handshake for a served identifier does not have to wait:
\* the Seeder can take a step.
C3_SilentPeerDoesNotStallOthers ==
    \A c, d \in Conns :
        (/\ lpc = "receive" /\ cur = c
         /\ conn[c].cst = "open" /\ Len(conn[c].cw) < 68
         /\ conn[d].sst = "queued"
         /\ WellFormed(conn[d].cw) /\ Served(IdOf(conn[d].cw)))
        => ENABLED SeederStep

\* C4: exchange returns an error whenever the handshake it received is
\* well-formed but carries another identifier than the one sent, and returns a
\* Handshake only when the received identifier equals the sent one.
C4_ExchangeRejectsOtherIdentifier ==
    \A c \in Conns :
        conn[c].kind = "exchange" =>
            /\ (Final(conn[c].cst) /\ WellFormed(conn[c].sw)
                /\ IdOf(conn[c].sw) # conn[c].id) => conn[c].cst # "ok"
            /\ conn[c].cst = "ok" =>
                  /\ WellFormed(conn[c].sw)
                  /\ IdOf(conn[c].sw) = conn[c].id
                  /\ conn[c].resp.info_hash = conn[c].id
            /\ conn[c].cst # "ok" => conn[c].resp = NoHs

\* exchange received a well-formed handshake for another identifier and failed.
C4_Witness ==
    \E c \in Conns :
        /\ conn[c].cst = "err_mismatch"
        /\ WellFormed(conn[c].sw)
        /\ IdOf(conn[c].sw) # conn[c].id

\* The connection was yielded by the listener and handle_connection ran on it to
\* its return.
Handled(c) ==
    conn[c].sst \in {"ok", "err_read", "err_too_short", "err_bad_pstrlen",
                     "err_bad_pstr", "err_not_served", "err_send"}

\* C5: receive on a stream that delivers fewer than 68 bytes before it is closed
\* returns an error, and a Handshake is returned, to the Seeder or to exchange,
\* only when all 68 bytes were there: the fields are those of the 68 bytes.
C5_ShortStreamIsAnError ==
    \A c \in Conns :
        /\ (Handled(c) /\ ClientGone(c) /\ Len(conn[c].cw) < 68) =>
              /\ conn[c].sst = "err_read"
              /\ conn[c].rx = NoHs
        /\ conn[c].rx # NoHs =>
              /\ Len(conn[c].cw) >= 68
              /\ conn[c].rx.info_hash = IdOf(conn[c].cw)
              /\ conn[c].rx.peer_id = PeerOf(conn[c].cw)
        /\ conn[c].resp # NoHs =>
              /\ Len(conn[c].sw) >= 68
              /\ conn[c].resp.info_hash = IdOf(conn[c].sw)
              /\ conn[c].resp.peer_id = PeerOf(conn[c].sw)
        /\ (conn[c].kind = "exchange" /\ Final(conn[c].cst)
            /\ Len(conn[c].sw) < 68) => conn[c].cst \in {"err_read", "err_send"}

\* The Seeder's receive failed on a stream closed after 67 bytes.
C5_Witness ==
    \E c \in Conns :
        /\ conn[c].sst = "err_read"
        /\ conn[c].cst = "closed"
        /\ Len(conn[c].cw) = 67

\* C6: no partial success.  Once exchange and handle_connection have both
\* returned on a connection, either both succeeded, each having sent and
\* received a well-formed 68-byte record for the same identifier, or both
\* failed; and a side that has returned does nothing more on the connection.
C6_NoPartialSuccess ==
    [][\A c \in Conns :
          /\ (conn'[c].kind = "exchange" /\ Final(conn'[c].cst)
              /\ Final(conn'[c].sst)) =>
                /\ conn'[c].cst = "ok" <=> conn'[c].sst = "ok"
                /\ conn'[c].cst = "ok" =>
                      /\ Len(conn'[c].cw) = 68 /\ WellFormed(conn'[c].cw)
                      /\ Len(conn'[c].sw) = 68 /\ WellFormed(conn'[c].sw)
                      /\ IdOf(conn'[c].cw) = IdOf(conn'[c].sw)
          /\ (conn[c].kind = "exchange" /\ Final(conn[c].cst)) =>
                /\ conn'[c].cst = conn[c].cst
                /\ conn'[c].cw = conn[c].cw
          /\ Final(conn[c].sst) =>
                /\ conn'[c].sst = conn[c].sst
                /\ conn'[c].sw = conn[c].sw]_vars

\* Both sides of one connection returned success.
C6_Witness ==
    \E c \in Conns :
        /\ conn[c].kind = "exchange"
        /\ conn[c].cst = "ok"
        /\ conn[c].sst = "ok"

\* C7: the initiator has written its 68 bytes before it reads, the acceptor has
\* read and checked 68 bytes before it writes, and the two never wait on each
\* other: while the Seeder handles an initiator's connection and one of the two
\* has not returned, one of them can take its next step.
C7_FixedOrderNoMutualWait ==
    \A c \in Conns :
        /\ (conn[c].kind = "exchange"
            /\ conn[c].cst \notin {"send", "err_send"}) =>
              /\ Len(conn[c].cw) = 68
              /\ WellFormed(conn[c].cw)
        /\ conn[c].sw # <<>> =>
              /\ WellFormed(conn[c].cw)
              /\ conn[c].rx # NoHs
              /\ Served(conn[c].rx.info_hash)
        /\ (conn[c].kind = "exchange" /\ cur = c
            /\ conn[c].cst \in {"send", "receive"}) =>
              ENABLED (SeederStep \/ ExchangeSend(c) \/ ExchangeReceive(c))

\* The initiator waits for the reply while the Seeder is about to read.
C7_Witness ==
    \E c \in Conns :
        /\ conn[c].kind = "exchange"
        /\ cur = c
        /\ lpc = "receive"
        /\ conn[c].cst = "receive"

\* C8: every reply of the Seeder carries the identifier of the handshake received
\* on that connection and the Seeder's own peer identifier, the one chosen at
\* construction, the same in every reply.
C8_ReplyCarriesIdAndOwnPeerId ==
    /\ peer_id \in SeederPeerIds
    /\ \A c \in Conns :
          conn[c].sw # <<>> =>
              /\ Len(conn[c].sw) = 68
              /\ IdOf(conn[c].sw) = IdOf(conn[c].cw)
              /\ PeerOf(conn[c].sw) = peer_id
              /\ \A d \in Conns :
                    conn[d].sw # <<>> => PeerOf(conn[d].sw) = PeerOf(conn[c].sw)

\* Two connections were answered.
C8_Witness ==
    \A c \in 1..2 : conn[c].sst = "ok" /\ Len(conn[c].sw) = 68

\* C9: while listen is running, an identifier can be added to the served set.
C9_AddWhileListening ==
    \A h \in Ids :
        (Listening /\ Len(info_hashes) < MaxServed) => ENABLED add_torrent(h)

\* C10: an identifier once added stays served, a failing add_torrent_hex adds and
\* removes nothing, and no step taken while listen runs (accepting, handling a
\* connection, anything a peer does) changes the set, the address, the port or the
\* peer identifier.
C10_NoEvictionReadOnlyHandling ==
    [][/\ \A x \in Range(info_hashes) : x \in Range(info_hashes')
       /\ (ret' \in {"err_len", "err_hex", "panic"}) => info_hashes' = info_hashes
       /\ Listening => SeederState' = SeederState
       /\ <<address, port, peer_id>>' = <<address, port, peer_id>>]_vars

\* Two identifiers are served and a connection was handled and refused.
C10_Witness ==
    /\ Len(info_hashes) = 2
    /\ info_hashes[1] # info_hashes[2]
    /\ \E c \in Conns : Handled(c)

\* C11: add_torrent is idempotent: a step that adds an identifier already served
\* leaves the served collection as it was.
C11_AddTorrentIdempotent ==
    [][\A h \in Ids :
          (add_torrent(h) /\ Served(h)) => info_hashes' = info_hashes]_vars

\* The characters 0-9, a-f, A-F.
HexDigits == (48..57) \cup (97..102) \cup (65..70)
IsHex40(s) == Len(s) = 40 /\ \A i \in 1..40 : s[i] \in HexDigits
HexValue(ch) ==
    IF ch \in 48..57 THEN ch - 48 ELSE IF ch \in 97..102 THEN ch - 87 ELSE ch - 55
BytesOfHex40(s) ==
    [i \in 1..20 |-> 16 * HexValue(s[2 * i - 1]) + HexValue(s[2 * i])]

\* C12: add_torrent_hex returns a format error and leaves the served set as it
\* was for every string that is not exactly 40 hexadecimal characters, and for
\* 40 hexadecimal characters it succeeds and adds the 20 bytes they denote.
C12_HexStringValidated ==
    [][\A s \in HexInputs :
          add_torrent_hex(s) =>
              IF IsHex40(s)
              THEN /\ ret' = "ok"
                   /\ info_hashes' = Append(info_hashes, BytesOfHex40(s))
              ELSE /\ ret' \in {"err_len", "err_hex"}
                   /\ info_hashes' = info_hashes]_vars

\* ------------------------------------- the handshake record, as pure functions
\* Byte values the inputs are built from.
ByteSamples == {0, 1, 18, 19, 20, 66, 255}

\* Identifiers and peer identifiers: [b; 20] and 1, 2, ..., 20 (the tests' values).
TwentyBytes == {Rep(20, b) : b \in ByteSamples} \cup {[i \in 1..20 |-> i]}

\* Byte strings handed to deserialize: a well-formed record with one byte of the
\* length prefix, the protocol name or the reserved bytes replaced, its proper
\* prefixes of 0, 50 and 67 bytes, and the record followed by one more byte.
WireInputs ==
    LET WireBase == serialize(HandshakeNew(Rep(20, 1), Rep(20, 2)))
    IN {[WireBase EXCEPT ![p] = v] : p \in 1..21, v \in ByteSamples}
       \cup {Take(WireBase, n) : n \in {0, 50, 67}}
       \cup {Append(WireBase, 7)}

InitHandshake ==
    /\ Init!2 /\ Init!3 /\ Init!4 /\ Init!5 /\ Init!6 /\ Init!7 /\ Init!8
    /\ Init!9 /\ Init!10
    /\ \/ \E id \in TwentyBytes, pid \in TwentyBytes :
             call = [fn |-> "new", arg |-> <<id, pid>>, mid |-> <<>>, out |-> <<>>]
       \/ \E b \in WireInputs :
             call = [fn |-> "bytes", arg |-> b, mid |-> <<>>, out |-> <<>>]

\* Handshake::new(id, pid).serialize()
HandshakeSerialize ==
    /\ call.fn = "new"
    /\ LET h == HandshakeNew(call.arg[1], call.arg[2])
       IN call' = [fn |-> "serialized", arg |-> h, mid |-> serialize(h),
                   out |-> <<>>]
    /\ UNCHANGED <<address, port, peer_id, info_hashes, lpc, ret, cur, backlog, conn>>

\* Handshake::deserialize of what serialize produced, or of the given bytes.
HandshakeDeserialize ==
    /\ \/ /\ call.fn = "serialized"
          /\ call' = [call EXCEPT !.fn = "roundtrip", !.out = deserialize(call.mid)]
       \/ /\ call.fn = "bytes"
          /\ call' = [call EXCEPT !.fn = "deserialized", !.mid = call.arg,
                                  !.out = deserialize(call.arg)]
    /\ UNCHANGED <<address, port, peer_id, info_hashes, lpc, ret, cur, backlog, conn>>

\* Handshake::receive on a stream that delivers the given bytes and is closed.
HandshakeReceive ==
    /\ call.fn = "bytes"
    /\ call' = [call EXCEPT !.fn = "received", !.mid = call.arg,
                            !.out = receive(call.arg, TRUE)]
    /\ UNCHANGED <<address, port, peer_id, info_hashes, lpc, ret, cur, backlog, conn>>

NextHandshake == HandshakeSerialize \/ HandshakeDeserialize \/ HandshakeReceive

SpecHandshake == InitHandshake /\ [][NextHandshake]_vars

\* C13: for every Handshake h built by Handshake::new, serialize(h) is 68 bytes:
\* the length byte 19, the 19 bytes of the protocol name, 8 reserved bytes, the 20
\* bytes of the identifier, the 20 bytes of the peer identifier; and
\* deserialize(serialize(h)) = h.
C13_SerializeLayoutAndRoundTrip ==
    /\ call.fn \in {"serialized", "roundtrip"} =>
          /\ Len(call.mid) = 68
          /\ call.mid[1] = 19
          /\ \A i \in 1..19 : call.mid[i + 1] = PROTOCOL_STRING[i]
          /\ \A i \in 1..8 : call.mid[20 + i] = call.arg.reserved[i]
          /\ \A i \in 1..20 : call.mid[28 + i] = call.arg.info_hash[i]
          /\ \A i \in 1..20 : call.mid[48 + i] = call.arg.peer_id[i]
    /\ call.fn = "roundtrip" =>
          /\ call.out.ok
          /\ call.out.hs = call.arg

\* A handshake whose identifier and peer identifier differ made the round trip.
C13_Witness ==
    /\ call.fn = "roundtrip"
    /\ call.arg.info_hash = [i \in 1..20 |-> i]
    /\ call.arg.peer_id = Rep(20, 255)

\* C14: deserialize and receive fail for every input of 68 bytes or more whose
\* first byte is not 19 or whose bytes 1..19 differ somewhere from the literal,
\* and no Handshake comes out with another length prefix or protocol name.
C14_ProtocolNameValidated ==
    call.fn \in {"deserialized", "received", "roundtrip"} =>
        /\ (/\ Len(call.mid) >= 68
            /\ \/ call.mid[1] # 19
               \/ \E i \in 1..19 : call.mid[i + 1] # PROTOCOL_STRING[i]) =>
              /\ ~call.out.ok
              /\ call.out.hs = NoHs
        /\ call.out.ok =>
              /\ call.out.hs.pstrlen = 19
              /\ call.out.hs.pstr = PROTOCOL_STRING
        /\ ~call.out.ok => call.out.hs = NoHs

\* 68 bytes with the right length prefix and a wrong last letter were refused.
C14_Witness ==
    /\ call.fn = "received"
    /\ Len(call.mid) = 68
    /\ call.mid[1] = 19
    /\ call.mid[20] # 108
    /\ ~call.out.ok

\* ------------------------------------------------- magnet links (magnet.rs)
\* A str is the sequence of its characters, each a Unicode code point.

\* "magnet:?"
MagnetPrefix == <<109, 97, 103, 110, 101, 116, 58, 63>>
\* "urn:btih:"
BtihPrefix == <<117, 114, 110, 58, 98, 116, 105, 104, 58>>
\* The keys "xt", "dn", "tr", "xl".
KeyXt == <<120, 116>>
KeyDn == <<100, 110>>
KeyTr == <<116, 114>>
KeyXl == <<120, 108>>

\* str::starts_with with true for every argument.
starts_with_anything(s, prefix) == TRUE

\* str::starts_with
starts_with(s, prefix) ==
    Len(s) >= Len(prefix) /\ SubSeq(s, 1, Len(prefix)) = prefix

\* &s[n..]
skip(s, n) == SubSeq(s, n + 1, Len(s))

\* The index of the first ch in s, 0 when there is none.
RECURSIVE find(_, _, _)
find(s, ch, i) ==
    IF i > Len(s) THEN 0
    ELSE IF s[i] = ch THEN i
    ELSE find(s, ch, i + 1)

\* str::split(ch): the pieces between the separators, empty ones included.
RECURSIVE split(_, _)
split(s, ch) ==
    LET i == find(s, ch, 1)
    IN IF i = 0 THEN <<s>>
       ELSE <<SubSeq(s, 1, i - 1)>> \o split(skip(s, i), ch)

\* str::split_once('='): none, or the key and the value.
split_once(pair) ==
    LET i == find(pair, 61, 1)
    IN IF i = 0 THEN [some |-> FALSE, key |-> <<>>, value |-> <<>>]
       ELSE [some |-> TRUE, key |-> SubSeq(pair, 1, i - 1), value |-> skip(pair, i)]

\* One step of the loop of parse_query_params that drops the values a key had.
insert_replacing(params, kv) ==
    IF ~kv.some THEN params
    ELSE SelectSeq(params, LAMBDA e : e.key # kv.key)
            \o <<[key |-> kv.key, value |-> kv.value]>>

\* One step of the loop of parse_query_params: entry(key).or_insert_with(Vec::new)
\* .push(value).  The map is kept as the sequence of its (key, value) pushes.
insert(params, kv) ==
    IF ~kv.some THEN params
    ELSE Append(params, [key |-> kv.key, value |-> kv.value])

RECURSIVE insert_all(_, _)
insert_all(params, pairs) ==
    IF pairs = <<>> THEN params
    ELSE insert_all(insert(params, split_once(Head(pairs))), Tail(pairs))

parse_query_params(query) == insert_all(<<>>, split(query, 38))

\* params.get(key): the Vec of the key, empty when the key is absent (an
\* absent key and an empty Vec are not told apart by any caller).
RECURSIVE get(_, _)
get(params, key) ==
    IF params = <<>> THEN <<>>
    ELSE IF Head(params).key = key
         THEN <<Head(params).value>> \o get(Tail(params), key)
         ELSE get(Tail(params), key)

\* str::len: the number of bytes, char::len_utf8 for every character.
RECURSIVE str_len(_)
str_len(s) ==
    LET len_utf8(c) ==
            IF c < 128 THEN 1 ELSE IF c < 2048 THEN 2 ELSE IF c < 65536 THEN 3 ELSE 4
    IN IF s = <<>> THEN 0 ELSE len_utf8(Head(s)) + str_len(Tail(s))

is_ascii_hexdigit(c) == c \in (48..57) \cup (97..102) \cup (65..70)

\* char::to_lowercase for the characters up to U+017F that have a one-character
\* lower case.
char_to_lowercase(c) ==
    IF c \in 65..90 THEN c + 32
    ELSE IF c \in (192..222) \ {215} THEN c + 32
    ELSE IF c \in 256..311 /\ c % 2 = 0 THEN c + 1
    ELSE c

to_lowercase(s) == [i \in 1..Len(s) |-> char_to_lowercase(s[i])]

extract_info_hash(xt) ==
    IF ~starts_with(xt, BtihPrefix) THEN [ok |-> FALSE, err |-> "xt_form", hash |-> <<>>]
    ELSE LET hash == skip(xt, 9)
         IN IF str_len(hash) # 40 /\ str_len(hash) # 32
            THEN [ok |-> FALSE, err |-> "hash_length", hash |-> <<>>]
            ELSE IF str_len(hash) = 40 /\ ~(\A i \in 1..Len(hash) : is_ascii_hexdigit(hash[i]))
            THEN [ok |-> FALSE, err |-> "hash_hex", hash |-> <<>>]
            ELSE [ok |-> TRUE, err |-> "none", hash |-> to_lowercase(hash)]

\* url_decode: a '%' takes the next two characters (fewer at the end of the
\* string) and hands them to u8::from_str_radix(.., 16); `byte as char` is the
\* character with the byte's value.
RECURSIVE url_decode(_)
url_decode(s) ==
    IF s = <<>> THEN <<>>
    ELSE IF Head(s) = 37
    THEN LET hex == Take(Tail(s), IF Len(s) >= 3 THEN 2 ELSE Len(s) - 1)
             rest == skip(s, 1 + Len(hex))
             byte == from_str_radix(hex)
         IN IF byte # -1 THEN <<byte>> \o url_decode(rest)
            ELSE <<37>> \o hex \o url_decode(rest)
    ELSE IF Head(s) = 43 THEN <<32>> \o url_decode(Tail(s))
    ELSE <<Head(s)>> \o url_decode(Tail(s))

\* The arm of url_encode for one character; `c as u8` keeps the low 8 bits,
\* and format!("{:02X}") writes them as two upper-case digits.
url_encode_char(c) ==
    LET upper_hex_char(d) == IF d < 10 THEN 48 + d ELSE 55 + d
    IN IF c \in (65..90) \cup (97..122) \cup (48..57) \cup {45, 95, 46, 126} THEN <<c>>
       ELSE IF c = 32 THEN <<43>>
       ELSE <<37, upper_hex_char((c % 256) \div 16), upper_hex_char(c % 16)>>

RECURSIVE url_encode(_)
url_encode(s) ==
    IF s = <<>> THEN <<>> ELSE url_encode_char(Head(s)) \o url_encode(Tail(s))

\* format!("{}", length) of a u64.
RECURSIVE u64_to_string(_)
u64_to_string(n) ==
    IF n < 10 THEN <<48 + n>> ELSE Append(u64_to_string(n \div 10), 48 + (n % 10))

RECURSIVE decimal_value(_, _)
decimal_value(ds, acc) ==
    IF ds = <<>> THEN acc
    ELSE IF Head(ds) \notin 48..57 THEN -1
    ELSE decimal_value(Tail(ds), acc * 10 + (Head(ds) - 48))

\* s.parse::<u64>().ok(): -1 stands for None.  A leading '+' is a sign.  The
\* strings of the model have at most 9 digits, far from the overflow of u64.
parse_u64(s) ==
    IF s = <<>> THEN -1
    ELSE IF Len(s) = 1 /\ s[1] \in {43, 45} THEN -1
    ELSE decimal_value(IF s[1] = 43 THEN Tail(s) ELSE s, 0)

\* Option values.
None == [some |-> FALSE, v |-> <<>>]
Some(x) == [some |-> TRUE, v |-> x]
\* Option<u64>::None
NoLength == [some |-> FALSE, v |-> 0]

NoLink == [info_hash |-> <<>>, display_name |-> None, trackers |-> <<>>,
           exact_length |-> NoLength]

\* MagnetLink::parse
parse(url) ==
    IF ~starts_with(url, MagnetPrefix)
    THEN [ok |-> FALSE, err |-> "scheme", link |-> NoLink]
    ELSE LET params == parse_query_params(skip(url, 8))
             xt == get(params, KeyXt)
             dn == get(params, KeyDn)
             tr == get(params, KeyTr)
             xl == get(params, KeyXl)
         IN IF xt = <<>> THEN [ok |-> FALSE, err |-> "missing_xt", link |-> NoLink]
            ELSE LET info_hash == extract_info_hash(xt[1])
                 IN IF ~info_hash.ok
                    THEN [ok |-> FALSE, err |-> info_hash.err, link |-> NoLink]
                    ELSE [ok |-> TRUE, err |-> "none",
                          link |-> [info_hash |-> info_hash.hash,
                                    display_name |->
                                        IF dn = <<>> THEN None ELSE Some(url_decode(dn[1])),
                                    trackers |-> [i \in 1..Len(tr) |-> url_decode(tr[i])],
                                    exact_length |->
                                        IF xl = <<>> \/ parse_u64(xl[1]) = -1 THEN NoLength
                                        ELSE Some(parse_u64(xl[1]))]]

RECURSIVE trackers_to_url(_)
trackers_to_url(trackers) ==
    IF trackers = <<>> THEN <<>>
    ELSE <<38>> \o KeyTr \o <<61>> \o url_encode(Head(trackers))
            \o trackers_to_url(Tail(trackers))

\* MagnetLink::to_url
to_url(m) ==
    MagnetPrefix \o KeyXt \o <<61>> \o BtihPrefix \o m.info_hash
    \o (IF m.display_name.some
        THEN <<38>> \o KeyDn \o <<61>> \o url_encode(m.display_name.v) ELSE <<>>)
    \o trackers_to_url(m.trackers)
    \o (IF m.exact_length.some
        THEN <<38>> \o KeyXl \o <<61>> \o u64_to_string(m.exact_length.v) ELSE <<>>)

\* ------------------------------------------ magnet links, as pure functions
MaxPairs == 3
MaxValueLen == 4

SeqsUpTo(S, n) == UNION {[1..k -> S] : k \in 0..n}

\* "d2474e86c95b19b8bcfdb92bc12c9d44667cfa36", the identifier of the tests.
TestHash ==
    <<100, 50, 52, 55, 52, 101, 56, 54, 99, 57, 53, 98, 49, 57, 98, 56, 98, 99,
      102, 100, 98, 57, 50, 98, 99, 49, 50, 99, 57, 100, 52, 52, 54, 54, 55, 99,
      102, 97, 51, 54>>
\* The same identifier in upper case.
TestHashUpper == [i \in 1..40 |-> IF TestHash[i] >= 97 THEN TestHash[i] - 32 ELSE TestHash[i]]
\* "MFRGGZDFMZTWQ2LKNNWG23TPOBYXE43U", 32 base-32 characters.
Base32Hash ==
    <<77, 70, 82, 71, 71, 90, 68, 70, 77, 90, 84, 87, 81, 50, 76, 75, 78, 78, 87,
      71, 50, 51, 84, 80, 79, 66, 89, 88, 69, 52, 51, 85>>

\* Hash texts after "urn:btih:": the three above, 40 characters with a 'g', 39
\* and 41 hexadecimal characters, 32 characters '!', 32 hexadecimal characters
\* with '0', '1', '8', '9', 16 two-byte characters, 20 two-byte characters.
HashTexts ==
    {TestHash, TestHashUpper, Base32Hash,
     [TestHash EXCEPT ![40] = 103], Take(TestHash, 39), Append(TestHash, 48),
     Rep(32, 33), Take(TestHash, 32), Rep(16, 233), Rep(20, 233), <<>>}

\* "Test", "Test File", "a+b", "100%", U+00E9, U+0100, "".
Names ==
    {<<84, 101, 115, 116>>, <<84, 101, 115, 116, 32, 70, 105, 108, 101>>,
     <<97, 43, 98>>, <<49, 48, 48, 37>>, <<233>>, <<256>>, <<>>}

\* "udp://tracker.test.com:80" and "http://t2", tracker strings.
Tracker1 ==
    <<117, 100, 112, 58, 47, 47, 116, 114, 97, 99, 107, 101, 114, 46, 116, 101,
      115, 116, 46, 99, 111, 109, 58, 56, 48>>
Tracker2 == <<104, 116, 116, 112, 58, 47, 47, 116, 50>>

\* MagnetLink values: every field is public, so every combination is a value.
Links ==
    [info_hash : {TestHash, TestHashUpper, Base32Hash},
     display_name : {None} \cup {Some(n) : n \in Names},
     trackers : {<<>>, <<Tracker1>>, <<Tracker1, Tracker2>>, <<Tracker2, Tracker1>>,
                 <<Tracker1, Tracker1>>},
     exact_length : {NoLength, Some(0), Some(999)}]

\* key=value pairs of a query string, and pieces without '='.
Pair(key, value) == [eq |-> TRUE, key |-> key, value |-> value]

\* The query string of the pairs: key=value, or the piece, joined by '&'.
RECURSIVE Join(_)
Join(pairs) ==
    LET PairStr(p) == IF p.eq THEN p.key \o <<61>> \o p.value ELSE p.key
    IN IF pairs = <<>> THEN <<>>
       ELSE IF Len(pairs) = 1 THEN PairStr(pairs[1])
       ELSE PairStr(pairs[1]) \o <<38>> \o Join(Tail(pairs))

\* Pairs of the keys the parser reads, a pair of another key, a pair whose value
\* holds '=', and a piece without '='.
QueryPairs ==
    {Pair(KeyXt, BtihPrefix \o TestHash), Pair(KeyXt, BtihPrefix \o Base32Hash),
     Pair(KeyXt, TestHash),
     Pair(KeyDn, <<65, 43, 66>>), Pair(KeyDn, <<116, 101, 115, 116>>),
     Pair(KeyTr, <<117, 37, 51, 65>>), Pair(KeyTr, Tracker2),
     Pair(KeyTr, <<97, 61, 98>>),
     Pair(KeyXl, <<57, 57, 57>>), Pair(<<88, 84>>, BtihPrefix \o TestHash),
     [eq |-> FALSE, key |-> KeyXt, value |-> <<>>]}

\* Beginnings of a URL: "magnet:?", "magnet:", "Magnet:?", "http://", "".
Schemes ==
    {MagnetPrefix, Take(MagnetPrefix, 7), [MagnetPrefix EXCEPT ![1] = 77],
     <<104, 116, 116, 112, 58, 47, 47>>, <<>>}

\* URLs handed to parse, with the pieces they were put together from: any
\* pairs after "magnet:?", one xt pair for every hash text, and up to one pair
\* after the other beginnings.
UrlInputs ==
    {[prefix |-> MagnetPrefix, pairs |-> ps] : ps \in SeqsUpTo(QueryPairs, MaxPairs)}
    \cup {[prefix |-> MagnetPrefix, pairs |-> <<Pair(KeyXt, BtihPrefix \o h)>>] :
             h \in HashTexts}
    \cup {[prefix |-> pre, pairs |-> ps] :
             pre \in Schemes, ps \in SeqsUpTo(QueryPairs, 1)}

\* Values handed to url_decode: '%', '+', '4', '1', 'f', 'g', U+00E9.
ValueInputs == SeqsUpTo({37, 43, 52, 49, 102, 103, 233}, MaxValueLen)

InitMagnet ==
    /\ Init!2 /\ Init!3 /\ Init!4 /\ Init!5 /\ Init!6 /\ Init!7 /\ Init!8
    /\ Init!9 /\ Init!10
    /\ \/ \E m \in Links :
             call = [fn |-> "link", arg |-> m, mid |-> <<>>, out |-> <<>>]
       \/ \E u \in UrlInputs :
             call = [fn |-> "url", arg |-> u.prefix \o Join(u.pairs), mid |-> u,
                     out |-> <<>>]
       \/ \E v \in ValueInputs :
             call = [fn |-> "value", arg |-> v, mid |-> <<>>, out |-> <<>>]

\* m.to_url()
MagnetToUrl ==
    /\ call.fn = "link"
    /\ call' = [call EXCEPT !.fn = "url_of_link", !.mid = to_url(call.arg)]
    /\ UNCHANGED <<address, port, peer_id, info_hashes, lpc, ret, cur, backlog, conn>>

\* MagnetLink::parse of what to_url produced, or of the given URL.
MagnetParse ==
    /\ \/ /\ call.fn = "url_of_link"
          /\ call' = [call EXCEPT !.fn = "reparsed", !.out = parse(call.mid)]
       \/ /\ call.fn = "url"
          /\ call' = [call EXCEPT !.fn = "parsed", !.out = parse(call.arg)]
    /\ UNCHANGED <<address, port, peer_id, info_hashes, lpc, ret, cur, backlog, conn>>

\* url_decode(value)
MagnetUrlDecode ==
    /\ call.fn = "value"
    /\ call' = [call EXCEPT !.fn = "decoded", !.out = url_decode(call.arg)]
    /\ UNCHANGED <<address, port, peer_id, info_hashes, lpc, ret, cur, backlog, conn>>

NextMagnet == MagnetToUrl \/ MagnetParse \/ MagnetUrlDecode

SpecMagnet == InitMagnet /\ [][NextMagnet]_vars

\* C15: round trip: for every MagnetLink m, parse(m.to_url()) succeeds and equals
\* m in info_hash, display_name, trackers and exact_length.
C15_MagnetRoundTrip ==
    call.fn = "reparsed" =>
        /\ call.out.ok
        /\ call.out.link.info_hash = call.arg.info_hash
        /\ call.out.link.display_name = call.arg.display_name
        /\ call.out.link.trackers = call.arg.trackers
        /\ call.out.link.exact_length = call.arg.exact_length

\* The values of the key=value pairs of one key, in the order of the URL.
ValuesOf(pairs, key) ==
    LET sel == SelectSeq(pairs, LAMBDA p : p.eq /\ p.key = key)
    IN [i \in 1..Len(sel) |-> sel[i].value]

\* The base-32 alphabet, either letter case: A-Z, a-z, 2-7.
Base32Chars == (65..90) \cup (97..122) \cup (50..55)

\* "urn:btih:" followed by 40 hexadecimal or 32 base-32 characters.
WellFormedXt(xt) ==
    /\ Len(xt) >= 9
    /\ \A i \in 1..9 : xt[i] = BtihPrefix[i]
    /\ LET hash == SubSeq(xt, 10, Len(xt))
       IN \/ Len(hash) = 40 /\ \A i \in 1..40 : hash[i] \in HexDigits
          \/ Len(hash) = 32 /\ \A i \in 1..32 : hash[i] \in Base32Chars

\* The URL begins with "magnet:?".
HasMagnetPrefix(url) ==
    Len(url) >= 8 /\ \A i \in 1..8 : url[i] = MagnetPrefix[i]

\* C16: parse accepts the first xt value only when it is "urn:btih:" followed by
\* 40 hexadecimal or 32 base-32 characters; any other xt value is a parse error.
C16_XtFormValidated ==
    (/\ call.fn = "parsed"
     /\ call.mid.prefix = MagnetPrefix
     /\ ValuesOf(call.mid.pairs, KeyXt) # <<>>) =>
        (call.out.ok <=> WellFormedXt(ValuesOf(call.mid.pairs, KeyXt)[1]))

\* C17: the trackers are the decoded values of all tr pairs in the order of the
\* URL, duplicates kept, wherever other keys stand between them; xt and dn take
\* their first occurrence.
C17_RepeatedKeysInOrder ==
    (/\ call.fn = "parsed"
     /\ call.mid.prefix = MagnetPrefix
     /\ call.out.ok) =>
        LET xt == ValuesOf(call.mid.pairs, KeyXt)
            dn == ValuesOf(call.mid.pairs, KeyDn)
            tr == ValuesOf(call.mid.pairs, KeyTr)
        IN /\ call.out.link.trackers = [i \in 1..Len(tr) |-> url_decode(tr[i])]
           /\ xt # <<>>
           /\ call.out.link.info_hash = to_lowercase(SubSeq(xt[1], 10, Len(xt[1])))
           /\ call.out.link.display_name =
                 IF dn = <<>> THEN None ELSE Some(url_decode(dn[1]))

\* A URL with the same tracker twice around the xt pair, and two different xt
\* pairs, was parsed.
C17_Witness ==
    /\ call.fn = "parsed"
    /\ call.out.ok
    /\ call.mid.pairs = <<Pair(KeyTr, Tracker2), Pair(KeyXt, BtihPrefix \o Base32Hash),
                          Pair(KeyTr, Tracker2)>>
    /\ Len(call.out.link.trackers) = 2

\* C18: an input that does not begin with "magnet:?" fails with the scheme
\* error, an input with the prefix and no xt pair fails with the missing
\* parameter error, and neither returns a MagnetLink.
C18_SchemeAndXtMandatory ==
    call.fn = "parsed" =>
        /\ ~HasMagnetPrefix(call.arg) =>
              /\ ~call.out.ok
              /\ call.out.err = "scheme"
              /\ call.out.link = NoLink
        /\ (call.mid.prefix = MagnetPrefix /\ ValuesOf(call.mid.pairs, KeyXt) = <<>>) =>
              /\ ~call.out.ok
              /\ call.out.err = "missing_xt"
              /\ call.out.link = NoLink

\* "http://" followed by a well-formed xt pair was refused.
C18_Witness ==
    /\ call.fn = "parsed"
    /\ call.mid.prefix = <<104, 116, 116, 112, 58, 47, 47>>
    /\ call.mid.pairs = <<Pair(KeyXt, BtihPrefix \o TestHash)>>
    /\ ~call.out.ok

\* What percent-decoding is to give: %XX with two hexadecimal digits is one
\* character, '+' is a space, a '%' not followed by two hexadecimal digits stays
\* with the (up to two) characters after it, every other character stays.
RECURSIVE PercentDecoded(_)
PercentDecoded(s) ==
    IF s = <<>> THEN <<>>
    ELSE IF s[1] = 37
    THEN IF Len(s) >= 3 /\ s[2] \in HexDigits /\ s[3] \in HexDigits
         THEN <<16 * HexValue(s[2]) + HexValue(s[3])>> \o PercentDecoded(skip(s, 3))
         ELSE LET n == IF Len(s) >= 3 THEN 3 ELSE Len(s)
              IN Take(s, n) \o PercentDecoded(skip(s, n))
    ELSE IF s[1] = 43 THEN <<32>> \o PercentDecoded(Tail(s))
    ELSE <<s[1]>> \o PercentDecoded(Tail(s))

\* C19: url_decode turns %XX into one character and '+' into a space, leaves
\* every other character, and puts every malformed '%' sequence, also one at the
\* end of the value, into the output literally.
C19_PercentDecoding ==
    call.fn = "decoded" => call.out = PercentDecoded(call.arg)

\* ------------------------------------------- torrent metadata (parser.rs)
\* The field names of Torrent and Info: "announce", "info", "name",
\* "piece length", "pieces", "length".
KeyAnnounce == <<97, 110, 110, 111, 117, 110, 99, 101>>
KeyInfo == <<105, 110, 102, 111>>
KeyName == <<110, 97, 109, 101>>
KeyPieceLength == <<112, 105, 101, 99, 101, 32, 108, 101, 110, 103, 116, 104>>
KeyPieces == <<112, 105, 101, 99, 101, 115>>
KeyLength == <<108, 101, 110, 103, 116, 104>>

\* A bencode value: an integer, a byte string, a list or a dictionary.
BInt(n) == [t |-> "int", n |-> n, b |-> <<>>, items |-> <<>>, entries |-> <<>>]
BBytes(b) == [t |-> "bytes", n |-> 0, b |-> b, items |-> <<>>, entries |-> <<>>]
BList(items) == [t |-> "list", n |-> 0, b |-> <<>>, items |-> items, entries |-> <<>>]
BDict(entries) == [t |-> "dict", n |-> 0, b |-> <<>>, items |-> <<>>, entries |-> entries]

BErr == [ok |-> FALSE, val |-> BInt(0), next |-> 0]
BOk(val, next) == [ok |-> TRUE, val |-> val, next |-> next]

\* i<digits>e at pos.
parse_int(data, pos) ==
    LET e == find(data, 101, pos + 1)
        txt == SubSeq(data, pos + 1, e - 1)
        neg == txt # <<>> /\ txt[1] = 45
        ds == IF neg THEN Tail(txt) ELSE txt
    IN IF e = 0 \/ ds = <<>> \/ decimal_value(ds, 0) = -1 THEN BErr
       ELSE BOk(BInt(IF neg THEN 0 - decimal_value(ds, 0) ELSE decimal_value(ds, 0)),
                e + 1)

\* <length>:<bytes> at pos.
parse_bytes(data, pos) ==
    LET colon == find(data, 58, pos)
        n == decimal_value(SubSeq(data, pos, colon - 1), 0)
    IN IF colon = 0 \/ n = -1 \/ colon + n > Len(data) THEN BErr
       ELSE BOk(BBytes(SubSeq(data, colon + 1, colon + n)), colon + n + 1)

RECURSIVE parse_value(_, _), parse_items(_, _, _), parse_entries(_, _, _)

\* The bencode value that starts at pos, and the position after it.
parse_value(data, pos) ==
    IF pos > Len(data) THEN BErr
    ELSE IF data[pos] = 105 THEN parse_int(data, pos)
    ELSE IF data[pos] \in 48..57 THEN parse_bytes(data, pos)
    ELSE IF data[pos] = 108 THEN parse_items(data, pos + 1, <<>>)
    ELSE IF data[pos] = 100 THEN parse_entries(data, pos + 1, <<>>)
    ELSE BErr

\* The items of a list up to its 'e'.
parse_items(data, pos, acc) ==
    IF pos > Len(data) THEN BErr
    ELSE IF data[pos] = 101 THEN BOk(BList(acc), pos + 1)
    ELSE LET r == parse_value(data, pos)
         IN IF ~r.ok THEN BErr ELSE parse_items(data, r.next, Append(acc, r.val))

\* The entries of a dictionary up to its 'e'; a key is a byte string.
parse_entries(data, pos, acc) ==
    IF pos > Len(data) THEN BErr
    ELSE IF data[pos] = 101 THEN BOk(BDict(acc), pos + 1)
    ELSE LET k == parse_value(data, pos)
         IN IF ~k.ok \/ k.val.t # "bytes" THEN BErr
            ELSE LET v == parse_value(data, k.next)
                 IN IF ~v.ok THEN BErr
                    ELSE parse_entries(data, v.next,
                                       Append(acc, [key |-> k.val.b, val |-> v.val]))

\* The values a dictionary has under a key, in order.
RECURSIVE entries_of(_, _)
entries_of(entries, key) ==
    IF entries = <<>> THEN <<>>
    ELSE IF Head(entries).key = key
         THEN <<Head(entries).val>> \o entries_of(Tail(entries), key)
         ELSE entries_of(Tail(entries), key)

\* String::from_utf8 succeeds; the byte strings of the model hold characters of
\* one or two bytes, or bytes that start no character.
RECURSIVE is_utf8(_)
is_utf8(b) ==
    IF b = <<>> THEN TRUE
    ELSE IF b[1] < 128 THEN is_utf8(Tail(b))
    ELSE IF b[1] \in 194..223 /\ Len(b) >= 2 /\ b[2] \in 128..191 THEN is_utf8(skip(b, 2))
    ELSE FALSE

\* The visitor of a String field.
is_string(v) == v.t = "bytes" /\ is_utf8(v.b)

NoInfo == [name |-> <<>>, plength |-> 0, pieces |-> <<>>, length |-> NoLength]
NoTorrent == [announce |-> <<>>, info |-> NoInfo]

\* The derived Deserialize of Info on a dictionary: every field once at most,
\* name, "piece length" and pieces required, length optional, other keys skipped.
\* (A list in the place of a struct is not among the inputs of the model.)
visit_info(v) ==
    IF v.t # "dict" THEN [ok |-> FALSE, info |-> NoInfo]
    ELSE LET name == entries_of(v.entries, KeyName)
             plength == entries_of(v.entries, KeyPieceLength)
             pieces == entries_of(v.entries, KeyPieces)
             length == entries_of(v.entries, KeyLength)
         IN IF \/ Len(name) # 1 \/ Len(plength) # 1 \/ Len(pieces) # 1 \/ Len(length) > 1
               \/ ~is_string(name[1])
               \/ ~(plength[1].t = "int" /\ plength[1].n >= 0)
               \/ pieces[1].t # "bytes"
               \/ (length # <<>> /\ ~(length[1].t = "int" /\ length[1].n >= 0))
            THEN [ok |-> FALSE, info |-> NoInfo]
            ELSE [ok |-> TRUE,
                  info |-> [name |-> name[1].b, plength |-> plength[1].n,
                            pieces |-> pieces[1].b,
                            length |-> IF length = <<>> THEN NoLength
                                       ELSE Some(length[1].n)]]

\* The derived Deserialize of Torrent on a dictionary.
visit_torrent(v) ==
    IF v.t # "dict" THEN [ok |-> FALSE, torrent |-> NoTorrent]
    ELSE LET announce == entries_of(v.entries, KeyAnnounce)
             info == entries_of(v.entries, KeyInfo)
         IN IF \/ Len(announce) # 1 \/ Len(info) # 1
               \/ ~is_string(announce[1]) \/ ~visit_info(info[1]).ok
            THEN [ok |-> FALSE, torrent |-> NoTorrent]
            ELSE [ok |-> TRUE,
                  torrent |-> [announce |-> announce[1].b,
                               info |-> visit_info(info[1]).info]]

\* parse_torrent: serde_bencode::from_bytes into Torrent.
parse_torrent(data) ==
    LET r == parse_value(data, 1)
    IN IF ~r.ok THEN [ok |-> FALSE, torrent |-> NoTorrent] ELSE visit_torrent(r.val)

\* serde_bencode::to_bytes of an integer and of a byte string.
encode_int(n) ==
    <<105>> \o (IF n < 0 THEN <<45>> \o u64_to_string(0 - n) ELSE u64_to_string(n))
            \o <<101>>
encode_bytes(b) == u64_to_string(Len(b)) \o <<58>> \o b

\* serde_bencode::to_bytes(&torrent.info): a dictionary of the fields of Info,
\* keys sorted, length left out when it is None.
info_to_bytes(info) ==
    <<100>>
    \o (IF info.length.some
        THEN encode_bytes(KeyLength) \o encode_int(info.length.v) ELSE <<>>)
    \o encode_bytes(KeyName) \o encode_bytes(info.name)
    \o encode_bytes(KeyPieceLength) \o encode_int(info.plength)
    \o encode_bytes(KeyPieces) \o encode_bytes(info.pieces)
    \o <<101>>

\* derive_infohash and hex::encode: the SHA-1 digest, kept as the bytes it is
\* the digest of (no two inputs of the model are taken to collide).
derive_infohash(info_bytes) == [sha1_of |-> info_bytes]

NoInfoHash == [sha1_of |-> <<>>]

\* calculate_info_hash
calculate_info_hash(torrent) == derive_infohash(info_to_bytes(torrent.info))

\* decode_torrent: the descriptor and the identifier it prints, or the error.
decode_torrent(data) ==
    LET decoded == parse_torrent(data)
    IN IF ~decoded.ok
       THEN [ok |-> FALSE, torrent |-> NoTorrent, info_hash |-> NoInfoHash]
       ELSE [ok |-> TRUE, torrent |-> decoded.torrent,
             info_hash |-> calculate_info_hash(decoded.torrent)]

\* ------------------------------------------ torrent metadata, as pure functions
\* "http://t" and "test.txt".
AnnounceText == <<104, 116, 116, 112, 58, 47, 47, 116>>
NameText == <<116, 101, 115, 116, 46, 116, 120, 116>>

\* What a metadata file holds under each key: nothing or one value.
MetadataFields ==
    [announce : {<<>>, <<BBytes(AnnounceText)>>},
     has_info : BOOLEAN,
     name : {<<>>, <<BBytes(NameText)>>, <<BInt(7)>>},
     plength : {<<>>, <<BInt(16384)>>, <<BInt(0 - 1)>>},
     pieces : {<<>>} \cup {<<BBytes([i \in 1..n |-> i])>> : n \in {0, 19, 20, 21, 40}},
     length : {<<>>, <<BInt(1024)>>},
     private : {<<>>, <<BInt(1)>>}]

\* The bencoding of a key and its value, nothing when the key is absent.
encode_entry(key, vs) ==
    IF vs = <<>> THEN <<>>
    ELSE encode_bytes(key)
            \o (IF vs[1].t = "int" THEN encode_int(vs[1].n) ELSE encode_bytes(vs[1].b))

\* "private", a key of the info dictionary that Info has no field for.
KeyPrivate == <<112, 114, 105, 118, 97, 116, 101>>

\* The info dictionary of a metadata file with these fields, keys sorted.
info_block_bytes(d) ==
    <<100>>
    \o encode_entry(KeyLength, d.length) \o encode_entry(KeyName, d.name)
    \o encode_entry(KeyPieceLength, d.plength)
    \o encode_entry(KeyPieces, d.pieces) \o encode_entry(KeyPrivate, d.private)
    \o <<101>>

\* The bencoding of a metadata file with these fields (as create_test_torrent
\* builds its input).
metadata_bytes(d) ==
    <<100>> \o encode_entry(KeyAnnounce, d.announce)
    \o (IF d.has_info THEN encode_bytes(KeyInfo) \o info_block_bytes(d) ELSE <<>>)
    \o <<101>>

\* Inputs that are no bencoded dictionary: "this is not bencode", "i5e",
\* "4:spam", and every proper prefix of the metadata of the tests.
MalformedInputs ==
    LET TestMetadata ==
            metadata_bytes([announce |-> <<BBytes(AnnounceText)>>, has_info |-> TRUE,
                            name |-> <<BBytes(NameText)>>, plength |-> <<BInt(16384)>>,
                            pieces |-> <<BBytes([i \in 1..20 |-> i])>>,
                            length |-> <<BInt(1024)>>, private |-> <<>>])
    IN {<<116, 104, 105, 115, 32, 105, 115, 32, 110, 111, 116, 32, 98, 101, 110, 99,
          111, 100, 101>>,
        <<105, 53, 101>>, <<52, 58, 115, 112, 97, 109>>}
       \cup {Take(TestMetadata, n) : n \in 0..(Len(TestMetadata) - 1)}

InitMetadata ==
    /\ Init!2 /\ Init!3 /\ Init!4 /\ Init!5 /\ Init!6 /\ Init!7 /\ Init!8
    /\ Init!9 /\ Init!10
    /\ \/ \E d \in MetadataFields :
             call = [fn |-> "metadata", arg |-> metadata_bytes(d),
                     mid |-> [malformed |-> FALSE, fields |-> d], out |-> <<>>]
       \/ \E b \in MalformedInputs :
             call = [fn |-> "metadata", arg |-> b,
                     mid |-> [malformed |-> TRUE, fields |-> <<>>], out |-> <<>>]

\* decode_torrent(data)
MetadataDecode ==
    /\ call.fn = "metadata"
    /\ call' = [call EXCEPT !.fn = "metadata_decoded", !.out = decode_torrent(call.arg)]
    /\ UNCHANGED <<address, port, peer_id, info_hashes, lpc, ret, cur, backlog, conn>>

NextMetadata == MetadataDecode

SpecMetadata == InitMetadata /\ [][NextMetadata]_vars

\* C20: decoding returns an error, and no descriptor or identifier, for every
\* input whose top level is malformed, whose info block lacks name, piece length
\* or pieces, or whose pieces buffer is not a multiple of 20 bytes long.
C20_DecodeErrors ==
    (/\ call.fn = "metadata_decoded"
     /\ \/ call.mid.malformed
        \/ /\ ~call.mid.malformed
           /\ call.mid.fields.has_info
           /\ \/ call.mid.fields.name = <<>>
              \/ call.mid.fields.plength = <<>>
              \/ call.mid.fields.pieces = <<>>
              \/ Len(call.mid.fields.pieces[1].b) % 20 # 0) =>
        /\ ~call.out.ok
        /\ call.out.torrent = NoTorrent
        /\ call.out.info_hash = NoInfoHash

\* C21: for every input that decodes, the bytes handed to the hash are the info
\* dictionary as it stands in the input, with all of its keys, so the identifier
\* is the hash of that part of the input.
C21_HashOfInfoBlockAsInInput ==
    (/\ call.fn = "metadata_decoded"
     /\ ~call.mid.malformed
     /\ call.out.ok) =>
        call.out.info_hash.sha1_of = info_block_bytes(call.mid.fields)

\* --------------------------- one identifier, from metadata and from a magnet
\* hex::encode: two lower-case hexadecimal digits for every byte.
encode(bytes) ==
    [i \in 1..(2 * Len(bytes)) |->
        LET b == bytes[(i + 1) \div 2]
            d == IF i % 2 = 1 THEN b \div 16 ELSE b % 16
        IN IF d < 10 THEN 48 + d ELSE 87 + d]

\* 20-byte identifiers (SHA-1 digests).
Identifiers == {[i \in 1..20 |-> (a * i + b) % 256] : a \in 0..3, b \in ByteSamples}

\* The base-32 text of 20 bytes (32 characters of A-Z, 2-7): BitOf is bit k
\* (from 0, most significant first) of the bytes, QuintetOf the value of their
\* j-th group of five bits.
Base32Text(bytes) ==
    LET BitOf(k) == (bytes[(k \div 8) + 1] \div (2 ^ (7 - (k % 8)))) % 2
        QuintetOf(j) ==
            16 * BitOf(5 * j) + 8 * BitOf(5 * j + 1) + 4 * BitOf(5 * j + 2)
            + 2 * BitOf(5 * j + 3) + BitOf(5 * j + 4)
    IN [j \in 1..32 |->
           LET v == QuintetOf(j - 1) IN IF v < 26 THEN 65 + v ELSE 24 + v]

ToUpper(s) == [i \in 1..Len(s) |-> IF s[i] \in 97..122 THEN s[i] - 32 ELSE s[i]]

\* The texts a magnet link carries an identifier in: 40 hexadecimal or 32
\* base-32 characters, either letter case.
IdentifierTexts(id) ==
    LET ToLower(s) == [i \in 1..Len(s) |-> IF s[i] \in 65..90 THEN s[i] + 32 ELSE s[i]]
    IN {[form |-> "hex", text |-> ToLower(ToUpper(encode(id)))],
        [form |-> "HEX", text |-> ToUpper(encode(id))],
        [form |-> "BASE32", text |-> Base32Text(id)],
        [form |-> "base32", text |-> ToLower(Base32Text(id))]}

InitIdentifier ==
    /\ Init!2 /\ Init!3 /\ Init!4 /\ Init!5 /\ Init!6 /\ Init!7 /\ Init!8
    /\ Init!9 /\ Init!10
    /\ \E id \in Identifiers : \E t \in IdentifierTexts(id) :
          call = [fn |-> "identifier", arg |-> [id |-> id, form |-> t.form, text |-> t.text],
                  mid |-> <<>>, out |-> <<>>]

\* The magnet link built from the identifier's text: MagnetLink { .. }.to_url()
IdentifierToUrl ==
    /\ call.fn = "identifier"
    /\ call' = [call EXCEPT
                   !.fn = "identifier_url",
                   !.mid = to_url([info_hash |-> call.arg.text, display_name |-> None,
                                   trackers |-> <<>>, exact_length |-> NoLength])]
    /\ UNCHANGED <<address, port, peer_id, info_hashes, lpc, ret, cur, backlog, conn>>

\* MagnetLink::parse of that link.
IdentifierParse ==
    /\ call.fn = "identifier_url"
    /\ call' = [call EXCEPT !.fn = "identifier_parsed", !.out = parse(call.mid)]
    /\ UNCHANGED <<address, port, peer_id, info_hashes, lpc, ret, cur, backlog, conn>>

NextIdentifier == IdentifierToUrl \/ IdentifierParse

SpecIdentifier == InitIdentifier /\ [][NextIdentifier]_vars

\* C22: for every 20-byte identifier I, parsing a magnet link that carries I as
\* 40 hexadecimal or 32 base-32 characters, in any letter case, yields the
\* identifier the metadata decoder gives for I (hex::encode of the 20 bytes).
C22_MagnetAndMetadataIdentifierAgree ==
    call.fn = "identifier_parsed" =>
        /\ call.out.ok
        /\ call.out.link.info_hash = encode(call.arg.id)

\* C23: when the bind fails listen returns that error at once, with no
\* connection accepted or handled, and a bind failure is the only failure that
\* makes listen return: every step in which listen returns is the failed bind.
C23_OnlyBindFailureEndsListen ==
    [][(lpc # "returned" /\ lpc' = "returned") =>
          /\ lpc = "idle"
          /\ ret' = "err_bind"
          /\ \A c \in Conns : conn'[c] = NoConn]_vars


\* C24: an initiator running exchange(id, p) against the Seeder's
\* handle_connection never gets the identifier-mismatch error; exchange succeeds
\* exactly when id is served at the check, and then returns a handshake with id
\* and the Seeder's peer identifier; when id is not served the Seeder writes
\* nothing and closes, and exchange fails with a read error.
C24_ComposedExchangeOutcome ==
    \A c \in Conns :
        (conn[c].kind = "exchange" /\ conn[c].target = "seeder") =>
            /\ conn[c].cst # "err_mismatch"
            /\ Handled(c) => conn[c].sst \in {"ok", "err_not_served"}
            /\ conn[c].cst = "ok" =>
                  /\ conn[c].sst = "ok"
                  /\ conn[c].resp.info_hash = conn[c].id
                  /\ conn[c].resp.peer_id = peer_id
            /\ conn[c].sst = "ok" =>
                  /\ Served(conn[c].id)
                  /\ Final(conn[c].cst) => conn[c].cst = "ok"
            /\ conn[c].sst = "err_not_served" =>
                  /\ conn[c].sw = <<>>
                  /\ Listening => ~Served(conn[c].id)
                  /\ Final(conn[c].cst) => conn[c].cst = "err_read"

\* One exchange for a served identifier succeeded and one for an identifier
\* that is not served ended in a read error.
C24_Witness ==
    \E c, d \in Conns :
        /\ conn[c].kind = "exchange" /\ conn[c].cst = "ok" /\ conn[c].sst = "ok"
        /\ conn[d].kind = "exchange" /\ conn[d].cst = "err_read"
        /\ conn[d].sst = "err_not_served"


\* --------------------------- Handshake::from_hex beside Seeder::add_torrent_hex
\* The loop of from_hex, from pair i on (0-based): the bytes decoded so far, or
\* the first failure in evaluation order.
RECURSIVE from_hex_pairs(_, _, _)
from_hex_pairs(s, i, acc) ==
    IF i = 20 THEN [res |-> "ok", bytes |-> acc]
    ELSE IF ~(is_char_boundary(s, 2 * i) /\ is_char_boundary(s, 2 * i + 2))
    THEN [res |-> "panic", bytes |-> <<>>]
    ELSE LET v == from_str_radix(SubSeq(s, 2 * i + 1, 2 * i + 2))
         IN IF v = -1 THEN [res |-> "err_hex", bytes |-> <<>>]
            ELSE from_hex_pairs(s, i + 1, Append(acc, v))

\* from_hex that takes hexadecimal digits only.
from_hex_digits_only(s, pid) ==
    IF Len(s) # 40 THEN [res |-> "err_len", hs |-> NoHs]
    ELSE IF \E i \in 1..40 : to_digit(s[i]) = 16 THEN [res |-> "err_hex", hs |-> NoHs]
    ELSE [res |-> "ok", hs |-> HandshakeNew(from_hex_pairs(s, 0, <<>>).bytes, pid)]

\* Handshake::from_hex
from_hex(s, pid) ==
    IF Len(s) # 40 THEN [res |-> "err_len", hs |-> NoHs]
    ELSE LET d == from_hex_pairs(s, 0, <<>>)
         IN IF d.res = "ok" THEN [res |-> "ok", hs |-> HandshakeNew(d.bytes, pid)]
            ELSE [res |-> d.res, hs |-> NoHs]

\* Identifier strings: those of add_torrent_hex, the hex form of more
\* identifiers, the identifier of the tests in both letter cases, with one
\* character replaced by '+', '-', ' ', 'g' or 'G', with a two-byte character,
\* with a character less or more, and the empty string.
HexCallInputs ==
    HexInputs
    \cup {info_hash_hex(id) : id \in TwentyBytes}
    \cup {TestHash, TestHashUpper, [TestHash EXCEPT ![1] = 195, ![2] = 169],
          Take(TestHash, 39),
          Append(TestHash, 48), <<>>}
    \cup {[TestHash EXCEPT ![p] = v] : p \in {1, 2, 3, 20, 39, 40}, v \in {43, 45, 32, 103, 71}}

InitHex ==
    /\ Init!2 /\ Init!3 /\ Init!4 /\ Init!5 /\ Init!6 /\ Init!7 /\ Init!8
    /\ Init!9 /\ Init!10
    /\ \E s \in HexCallInputs :
          call = [fn |-> "hex", arg |-> s, mid |-> <<>>, out |-> <<>>]

\* Handshake::from_hex(s, peer_id)
HexFromHex ==
    /\ call.fn = "hex"
    /\ call' = [call EXCEPT !.fn = "from_hex", !.out = from_hex(call.arg, ClientPeerId)]
    /\ UNCHANGED <<address, port, peer_id, info_hashes, lpc, ret, cur, backlog, conn>>

\* seeder.add_torrent_hex(s) with the same string, on the new Seeder.
HexAddTorrentHex ==
    /\ call.fn = "from_hex"
    /\ ret = "none"
    /\ add_torrent_hex(call.arg)

NextHex == HexFromHex \/ HexAddTorrentHex

SpecHex == InitHex /\ [][NextHex]_vars

\* 40 characters 0-9, a-f.
IsLowerHex40(s) == Len(s) = 40 /\ \A i \in 1..40 : s[i] \in (48..57) \cup (97..102)

\* C25: from_hex and add_torrent_hex succeed on the same strings and then yield
\* the same 20 bytes, so the Seeder accepts the handshake from_hex built; and
\* for a lower-case 40-digit s, info_hash_hex(from_hex(s)) = s.
C25_FromHexAgreesWithAddTorrentHex ==
    call.fn = "from_hex" =>
        /\ ret # "none" =>
              /\ (call.out.res = "ok") <=> (ret = "ok")
              /\ ret = "ok" =>
                    /\ info_hashes = <<call.out.hs.info_hash>>
                    /\ Served(IdOf(serialize(call.out.hs)))
        /\ IsLowerHex40(call.arg) =>
              /\ call.out.res = "ok"
              /\ info_hash_hex(call.out.hs.info_hash) = call.arg

\* Both calls succeeded on the identifier of the tests.
C25_Witness ==
    /\ call.fn = "from_hex"
    /\ call.arg = TestHash
    /\ call.out.res = "ok"
    /\ ret = "ok"
    /\ info_hashes = <<call.out.hs.info_hash>>

====
